---- MODULE Spec2Model ----
(***************************************************************************)
(* Model of connect's static file middleware (lib/connect/middleware/      *)
(* static.js): the request handler with its stat and readFile callbacks,   *)
(* the process-wide file buffer cache `_cache`, the conditional-GET        *)
(* validation and clearCache.                                              *)
(*                                                                         *)
(* Strings that the code inspects character by character (request URLs,    *)
(* file names) are sequences of one-character strings.  Date strings are   *)
(* modelled by the instant they denote, in milliseconds since the epoch:   *)
(* Date.toUTCString keeps whole seconds only, Date parsing keeps what the  *)
(* string holds.                                                           *)
(***************************************************************************)
EXTENDS Integers, Sequences, FiniteSets, TLC

VARIABLES
    _cache,     \* static.js:24   the file buffer cache: request URL -> entry
    fs,         \* the file system: absolute path -> file
    reqs,       \* the requests handled so far, in order of arrival
    nwrites,    \* number of file system modifications so far
    nclears,    \* number of clearCache calls so far
    lastClear,  \* the latest clearCache call: its key, the store before and after
    gen,        \* per key: number of changes of the cache slot so far
    clearedGen, \* per key: gen at the last clearCache() that removed the
                \* key's entry while no unconditional request for the key
                \* has arrived since; -1 otherwise
    calls,      \* the calls of modified() made on their own: arguments, result
    process     \* static.js:90  node's process object: its ENOENT constant

vars ==
    <<_cache, fs, reqs, nwrites, nclears, lastClear, gen, clearedGen, calls,
      process>>

(***************************************************************************)
(* Bounds of the model.                                                    *)
(***************************************************************************)
MaxReqs == 3        \* requests handled in one behaviour
MaxPathReqs == 2    \* the same, where the request URLs vary
MaxInFlight == 1    \* requests with a stat or read pending at one time
MaxRaceInFlight == 2    \* the same, where requests race for one cache slot
MaxWrites == 1      \* file system modifications in one behaviour
MaxClears == 1      \* clearCache calls in one behaviour
MaxCalls == 1       \* calls of modified() on its own in one behaviour

(***************************************************************************)
(* Platform constants.                                                     *)
(***************************************************************************)
MsPerSec == 1000

Undefined == "undefined"

(***************************************************************************)
(* Strings as sequences of characters.                                     *)
(***************************************************************************)
RECURSIVE IndexFrom(_, _, _)
IndexFrom(s, sub, i) ==
    IF i + Len(sub) - 1 > Len(s) THEN -1
    ELSE IF SubSeq(s, i, i + Len(sub) - 1) = sub THEN i - 1
    ELSE IndexFrom(s, sub, i + 1)

\* String.prototype.indexOf: 0-based position of the first occurrence, or -1
indexOf(s, sub) == IndexFrom(s, sub, 1)

EndsWith(s, suffix) ==
    /\ Len(s) >= Len(suffix)
    /\ SubSeq(s, Len(s) - Len(suffix) + 1, Len(s)) = suffix

\* url.parse(u).pathname for an origin-form request target: what precedes
\* the query string and the fragment
RECURSIVE PathEnd(_, _)
PathEnd(u, i) ==
    IF i > Len(u) THEN Len(u)
    ELSE IF u[i] \in {"?", "#"} THEN i - 1
    ELSE PathEnd(u, i + 1)

pathname(u) == SubSeq(u, 1, PathEnd(u, 1))

HexDigits ==
    [c \in {"0", "1", "2", "3", "4", "5", "6", "7", "8", "9"} |->
        CHOOSE n \in 0..9 : ToString(n) = c]
    @@ ("a" :> 10 @@ "b" :> 11 @@ "c" :> 12 @@ "d" :> 13 @@ "e" :> 14 @@ "f" :> 15)
    @@ ("A" :> 10 @@ "B" :> 11 @@ "C" :> 12 @@ "D" :> 13 @@ "E" :> 14 @@ "F" :> 15)

IsHex(c) == c \in DOMAIN HexDigits

\* the ASCII characters the request targets of the model can escape
AsciiChar ==
    35 :> "#" @@ 37 :> "%" @@ 46 :> "." @@ 47 :> "/" @@ 63 :> "?"
    @@ 97 :> "a" @@ 98 :> "b" @@ 100 :> "d"

CharOf(code) ==
    IF code \in DOMAIN AsciiChar THEN AsciiChar[code]
    ELSE "\\x" \o ToString(code)

URIError == <<"URIError">>

\* decodeURIComponent: every %XX escape is replaced by the character it
\* encodes; a '%' not followed by two hex digits, or an escape that is not
\* a complete UTF-8 sequence, throws URIError.  Escapes of the model are
\* single ASCII bytes; any byte >= 0x80 stands alone and throws.
RECURSIVE Decode(_, _, _)
Decode(s, i, acc) ==
    IF i > Len(s) THEN acc
    ELSE IF s[i] # "%" THEN Decode(s, i + 1, Append(acc, s[i]))
    ELSE IF i + 2 > Len(s) \/ ~IsHex(s[i + 1]) \/ ~IsHex(s[i + 2]) THEN URIError
    ELSE LET code == 16 * HexDigits[s[i + 1]] + HexDigits[s[i + 2]]
         IN  IF code >= 128 THEN URIError
             ELSE Decode(s, i + 3, Append(acc, CharOf(code)))

decodeURIComponent(s) == Decode(s, 1, <<>>)

\* mutant of Traversal: only a whole '..' segment inside the path counts
TraversalSegment(filename) == indexOf(filename, <<"/", ".", ".", "/">>) # -1

\* static.js:67  ~filename.indexOf('..')
Traversal(filename) == indexOf(filename, <<".", ".">>) # -1

\* the segments of a path between its '/' separators
RECURSIVE Split(_, _, _, _)
Split(s, i, cur, acc) ==
    IF i > Len(s) THEN Append(acc, cur)
    ELSE IF s[i] = "/" THEN Split(s, i + 1, <<>>, Append(acc, cur))
    ELSE Split(s, i + 1, Append(cur, s[i]), acc)

RECURSIVE JoinSegs(_, _)
JoinSegs(segs, i) ==
    IF i > Len(segs) THEN <<>>
    ELSE IF segs[i] = <<>> \/ segs[i] = <<".">> THEN JoinSegs(segs, i + 1)
    ELSE <<"/">> \o segs[i] \o JoinSegs(segs, i + 1)

\* path.join(root, filename) for an absolute root and a filename without
\* '..' segments: the two are joined with '/', empty and '.' segments are
\* dropped, a trailing '/' is kept
PathJoin(root, filename) ==
    LET p == root \o <<"/">> \o filename
        body == JoinSegs(Split(p, 1, <<>>, <<>>), 1)
    IN  IF p[Len(p)] = "/" THEN body \o <<"/">> ELSE body

IndexHtml == <<"i", "n", "d", "e", "x", ".", "h", "t", "m", "l">>

\* static.js:72-77  the file a decoded request path names under root
Resolve(root, filename) ==
    LET joined == PathJoin(root, filename)
    IN  IF joined[Len(joined)] = "/" THEN joined \o IndexHtml ELSE joined

\* mime.lookup(filename): by extension, with the library's default type
MimeLookup(filename) ==
    IF EndsWith(filename, <<".", "h", "t", "m", "l">>) THEN "text/html"
    ELSE "application/octet-stream"

(***************************************************************************)
(* Header names, header values and bodies.                                 *)
(***************************************************************************)
Content == <<"C", "o", "n", "t", "e", "n", "t">>
ContentType == Content \o <<"-", "T", "y", "p", "e">>
ContentLength == Content \o <<"-", "L", "e", "n", "g", "t", "h">>
LastModified == <<"L", "a", "s", "t", "-", "M", "o", "d", "i", "f", "i", "e", "d">>
CacheControl == <<"C", "a", "c", "h", "e", "-", "C", "o", "n", "t", "r", "o", "l">>
ETag == <<"E", "T", "a", "g">>

NoHeaders == [f \in {} |-> Undefined]

\* what res.end(x) sends: nothing for res.end() and res.end(undefined)
NoBody == [sent |-> FALSE]
Body(data) == [sent |-> TRUE, data |-> data]

\* mutants of EndBody: the body is sent whatever the method; the test is
\* inverted
EndBodyIgnoreHead(head, data) == Body(data)
EndBodySwapped(head, data) == IF head THEN Body(data) ELSE NoBody

\* static.js:82,116  res.end(head ? undefined : data)
EndBody(head, data) == IF head THEN NoBody ELSE Body(data)

\* a date header: absent, unparseable, or a date string denoting `ms`
NoDate == [kind |-> "absent"]
InvalidDate == [kind |-> "invalid"]
DateString(ms) == [kind |-> "date", ms |-> ms]

\* mutant of toUTCString: the date string keeps the milliseconds
toUTCStringMillis(ms) == DateString(ms)

\* Date.prototype.toUTCString: an HTTP-date has whole seconds only
toUTCString(ms) == DateString((ms \div MsPerSec) * MsPerSec)

\* isNaN(new Date(string).getTime()), and getTime() of a valid date
isNaN(d) == d.kind # "date"
getTime(d) == d.ms

\* JavaScript truthiness of a request header value
TruthyDate(d) == d.kind # "absent"
TruthyString(s) == s # Undefined /\ s # ""

(***************************************************************************)
(* static.js:186-188  etag(stat): '<size>-<mtime in ms>'                   *)
(***************************************************************************)
etag(stat) == ToString(stat.size) \o "-" \o ToString(stat.mtime)

\* mutant of modified: a Last-Modified equal to If-Modified-Since counts as
\* modified
modifiedStrict(req, headers) ==
    LET modifiedSince == req.ims
        lastModified == headers[LastModified]
        noneMatch == req.inm
        tag == headers[ETag]
    IN  IF TruthyString(noneMatch) /\ TruthyString(tag) /\ noneMatch = tag
        THEN FALSE
        ELSE IF /\ TruthyDate(modifiedSince)
                /\ TruthyDate(lastModified)
                /\ ~isNaN(modifiedSince)
                /\ ~isNaN(lastModified)
                /\ getTime(lastModified) < getTime(modifiedSince)
        THEN FALSE
        ELSE TRUE

(***************************************************************************)
(* static.js:141-163  modified(req, headers)                               *)
(***************************************************************************)
modified(req, headers) ==
    LET modifiedSince == req.ims
        lastModified == headers[LastModified]
        noneMatch == req.inm
        tag == headers[ETag]
    IN  IF TruthyString(noneMatch) /\ TruthyString(tag) /\ noneMatch = tag
        THEN FALSE
        ELSE IF /\ TruthyDate(modifiedSince)
                /\ TruthyDate(lastModified)
                /\ ~isNaN(modifiedSince)
                /\ ~isNaN(lastModified)
                /\ getTime(lastModified) <= getTime(modifiedSince)
        THEN FALSE
        ELSE TRUE

\* mutant of conditionalGET: If-None-Match is not looked at
conditionalGETSinceOnly(req) == TruthyDate(req.ims)

(***************************************************************************)
(* static.js:173-176  conditionalGET(req)                                  *)
(***************************************************************************)
conditionalGET(req) == TruthyDate(req.ims) \/ TruthyString(req.inm)

\* the digits after the point of r / 1000, for r in 1..999
Thousandths(r) ==
    IF r % 100 = 0 THEN ToString(r \div 100)
    ELSE IF r % 10 = 0
    THEN (IF r < 100 THEN "0" ELSE "") \o ToString(r \div 10)
    ELSE (IF r < 10 THEN "00" ELSE IF r < 100 THEN "0" ELSE "") \o ToString(r)

\* static.js:106  "" + (maxAge / 1000) for a maxAge >= 0: the quotient as
\* JavaScript prints a number, with its fraction when there is one
DivThousand(maxAge) ==
    IF maxAge % 1000 = 0 THEN ToString(maxAge \div 1000)
    ELSE ToString(maxAge \div 1000) \o "." \o Thousandths(maxAge % 1000)

(***************************************************************************)
(* static.js:102-108  the response headers built from a stat result        *)
(***************************************************************************)
BuildHeaders(filename, stat, maxAge) ==
    ContentType :> MimeLookup(filename)
    @@ ContentLength :> stat.size
    @@ LastModified :> toUTCString(stat.mtime)
    @@ CacheControl :> ("public max-age=" \o DivThousand(maxAge))
    @@ ETag :> etag(stat)

\* mutant of StripContent: the headers are passed on as they are
StripNothing(headers) == headers

(***************************************************************************)
(* static.js:198-207  notModified: the headers without the Content-* ones  *)
(***************************************************************************)
StripContent(headers) ==
    [f \in {g \in DOMAIN headers : indexOf(g, Content) # 0} |-> headers[f]]

(***************************************************************************)
(* static.js:216-223  forbidden(res)                                       *)
(***************************************************************************)
ForbiddenBody == <<"F", "o", "r", "b", "i", "d", "d", "e", "n">>

ForbiddenHeaders ==
    ContentType :> "text/plain" @@ ContentLength :> Len(ForbiddenBody)

(***************************************************************************)
(* static.js:232-238  clearCache(key) on a store; key is Undefined when    *)
(* the call passes none.  A key is a string, the store's keys are request  *)
(* URLs.                                                                   *)
(***************************************************************************)
UndefinedKey == <<Undefined>>

TruthyKey(key) == key # UndefinedKey /\ key # <<>>

\* mutant of clearCache: every call empties the store
clearCacheWhole(key, store) == [k \in {} |-> Undefined]

clearCache(key, store) ==
    IF TruthyKey(key)
    THEN [k \in DOMAIN store \ {key} |-> store[k]]
    ELSE [k \in {} |-> Undefined]

(***************************************************************************)
(* Option values: a number, a boolean, or undefined; their JavaScript      *)
(* truthiness and their value as a number (in maxAge / 1000).              *)
(***************************************************************************)
Number(n) == [type |-> "number", n |-> n]
Boolean(b) == [type |-> "boolean", b |-> b]
NoOption == [type |-> "undefined"]

Truthy(v) == (v.type = "number" /\ v.n # 0) \/ (v.type = "boolean" /\ v.b)

ToNumber(v) ==
    IF v.type = "number" THEN v.n
    ELSE IF v.type = "boolean" /\ v.b THEN 1 ELSE 0

RootRequired == [thrown |-> "Error: static() root path required"]

(***************************************************************************)
(* static.js:47-56  static(root, options): throws without a root, else     *)
(* gives the configuration the handler closes over: the root, whether      *)
(* `cache` is set, and maxAge (options.maxAge || 0, or the value of        *)
(* `cache` when that is set and maxAge is not) as the number it counts as. *)
(***************************************************************************)
Static(root, options) ==
    LET maxAge == IF Truthy(options.maxAge) THEN options.maxAge ELSE Number(0)
        cache == options.cache
    IN  IF ~TruthyKey(root) THEN RootRequired
        ELSE [root |-> root,
              cache |-> Truthy(cache),
              maxAge |-> ToNumber(IF Truthy(cache) /\ ~Truthy(maxAge)
                                  THEN cache ELSE maxAge)]

RootR == <<"/", "r">>
RootS == <<"/", "s">>

\* the handlers that exist in the process
Handlers ==
    [A |-> Static(RootR, [cache |-> Number(60000), maxAge |-> NoOption]),
     B |-> Static(RootS, [cache |-> Boolean(TRUE), maxAge |-> NoOption]),
     N |-> Static(RootR, [cache |-> NoOption, maxAge |-> Number(1500)])]

(***************************************************************************)
(* The file system.                                                        *)
(***************************************************************************)
Missing == [kind |-> "none"]
Dir == [kind |-> "dir"]
File(data, mtime) ==
    [kind |-> "file", size |-> Len(data), mtime |-> mtime, data |-> data]

FileRA == RootR \o <<"/", "a">>
FileSA == RootS \o <<"/", "a">>
DirRD == RootR \o <<"/", "d">>

\* the files a behaviour may write or remove
Mutable == {FileRA}

\* contents and modification times (ms) a write may leave
Contents == {<<"y">>, <<"x", "y">>}
MTimes == {1500, 2000}

InitFs ==
    FileRA :> File(<<"x">>, 1500)
    @@ FileSA :> File(<<"z", "z", "z">>, 1000)
    @@ DirRD :> Dir

Lookup(path) == IF path \in DOMAIN fs THEN fs[path] ELSE Missing

\* what fs.stat reports for a file
StatOf(file) == [kind |-> file.kind, size |-> file.size, mtime |-> file.mtime]

NoStat == [kind |-> "none"]

\* a readFile that has not read the file yet
NoRead == [kind |-> "pending"]

(***************************************************************************)
(* Requests.                                                               *)
(***************************************************************************)
U_a == <<"/", "a">>
U_aq == <<"/", "a", "?", "v">>
U_enc == <<"/", "%", "6", "1">>
U_dd == <<"/", "d", "/", ".", ".", "/", "a">>
U_ddenc == <<"/", "%", "2", "e", "%", "2", "E", "/", "a">>
U_ddmid == <<"/", "a", ".", ".", "b">>
U_ddquery == <<"/", "a", "?", ".", ".">>
U_dir == <<"/", "d">>
U_index == <<"/">>
U_bad == <<"/", "%", "2">>
U_none == <<"/", "b">>

URLs == {U_a, U_aq, U_enc, U_dd, U_ddenc, U_ddmid, U_ddquery, U_dir,
         U_index, U_bad, U_none}

\* the request as it arrives: handler, method, URL and the two validators
Input(h, method, url, ims, inm) ==
    [ims |-> ims, inm |-> inm, h |-> h, method |-> method, url |-> url]

\* a request before the handler has run
Fresh(in) ==
    [h |-> in.h, method |-> in.method, url |-> in.url,
     ims |-> in.ims, inm |-> in.inm,
     pc |-> "done",
     filename |-> <<>>, stat |-> NoStat, read |-> NoRead,
     rstat |-> NoStat, data |-> <<>>,
     status |-> 0, headers |-> NoHeaders, body |-> NoBody,
     heads |-> 0, ends |-> 0, nexts |-> 0, err |-> Undefined,
     thrown |-> FALSE,
     nstat |-> 0, nread |-> 0, nlookup |-> 0, ninsert |-> 0,
     src |-> "none", origin |-> <<>>,
     before |-> {i \in 1..Len(reqs) : reqs[i].pc = "done"},
     w0 |-> nwrites, wStat |-> -1, wRead |-> -1, wEnd |-> nwrites,
     g0 |-> gen[in.url], gEnd |-> gen[in.url], afterClear |-> -1]

\* res.writeHead(status, headers); res.end(body)
Respond(r, status, headers, body) ==
    [r EXCEPT !.pc = "done", !.status = status, !.headers = headers,
              !.body = body, !.heads = @ + 1, !.ends = @ + 1,
              !.wEnd = nwrites, !.gEnd = gen[r.url]]

\* next() and next(err)
CallNext(r, err) ==
    [r EXCEPT !.pc = "done", !.nexts = @ + 1, !.err = err,
              !.wEnd = nwrites, !.gEnd = gen[r.url]]

\* mutant of PassThroughMethod: only POST is declined
PassThroughMethodPostOnly(method) == method = "POST"

\* static.js:59  req.method != 'GET' && req.method != 'HEAD'
PassThroughMethod(method) == method # "GET" /\ method # "HEAD"

\* static.js:58-86  the handler up to the point where it returns: the
\* method gate, the traversal check, the cache hit, or the stat it issues
Handle(in) ==
    LET r == Fresh(in)
        h == Handlers[in.h]
        head == in.method = "HEAD"
        decoded == decodeURIComponent(pathname(in.url))
    IN  IF PassThroughMethod(in.method) THEN CallNext(r, Undefined)
        ELSE IF decoded = URIError THEN [r EXCEPT !.thrown = TRUE]
        ELSE IF Traversal(decoded)
             THEN Respond(r, 403, ForbiddenHeaders, Body(ForbiddenBody))
        ELSE LET filename == Resolve(h.root, decoded)
                 look == h.cache /\ ~conditionalGET(in)
                 q == [r EXCEPT !.filename = filename,
                                !.nlookup = IF look THEN 1 ELSE 0,
                                !.afterClear = IF conditionalGET(in)
                                               THEN -1 ELSE clearedGen[in.url]]
             IN  IF look /\ in.url \in DOMAIN _cache
                 THEN LET hit == _cache[in.url]
                      IN  Respond([q EXCEPT !.src = "cache",
                                            !.origin = hit.filename,
                                            !.rstat = hit.rstat,
                                            !.stat = hit.stat,
                                            !.wStat = hit.wStat,
                                            !.wRead = hit.wRead],
                                  200, hit.headers, EndBody(head, hit.body))
                 ELSE [q EXCEPT !.pc = "stat", !.nstat = 1]

InFlight == {i \in 1..Len(reqs) : reqs[i].pc # "done"}

\* a request arrives at one of the handlers
Request(Inputs, maxReqs, maxInFlight) ==
    /\ Len(reqs) < maxReqs
    /\ Cardinality(InFlight) < maxInFlight
    /\ \E in \in Inputs :
        /\ reqs' = Append(reqs, Handle(in))
        /\ clearedGen' = IF ~PassThroughMethod(in.method) /\ ~conditionalGET(in)
                         THEN [clearedGen EXCEPT ![in.url] = -1]
                         ELSE clearedGen
    /\ UNCHANGED <<_cache, fs, nwrites, nclears, lastClear, gen, calls,
                   process>>

\* static.js:90  process.ENOENT: the errno of 'no such file' on the node
\* versions that define the constant, undefined on the others
Processes == {[ENOENT |-> "ENOENT"], [ENOENT |-> Undefined]}

\* static.js:89-92  err.errno === process.ENOENT ? next() : next(err)
StatErrorArg(errno) == IF errno = process.ENOENT THEN Undefined ELSE errno

\* what the stat callback saw when it did not get a file's stat
StatSaw(kind) == [kind |-> kind]

\* static.js:86-96,127  the stat callback without an error other than that
\* of a missing file, which is handed to next unless its errno equals
\* process.ENOENT: next() or next(err) for a missing file, pass through for
\* a directory, else read.  The stat is taken in the step of its callback:
\* the callback writes nothing that another request or a later step of the
\* environment reads, so a stat taken before a write and delivered after it
\* is the behaviour in which this step comes before the write
StatCallback(i) ==
    /\ reqs[i].pc = "stat"
    /\ LET r == reqs[i]
           file == Lookup(r.filename)
       IN  reqs' = [reqs EXCEPT ![i] =
               IF file.kind = "none"
               THEN CallNext([r EXCEPT !.stat = StatSaw("none")],
                             StatErrorArg("ENOENT"))
               ELSE IF file.kind = "dir"
               THEN CallNext([r EXCEPT !.stat = StatSaw("dir")], Undefined)
               ELSE [r EXCEPT !.pc = "read", !.stat = StatOf(file),
                              !.wStat = nwrites, !.nread = 1]]
    /\ UNCHANGED <<_cache, fs, nwrites, nclears, lastClear, gen, clearedGen,
                   calls, process>>

\* static.js:89-92  the stat fails with an error other than ENOENT
StatFail(i) ==
    /\ reqs[i].pc = "stat"
    /\ reqs' = [reqs EXCEPT ![i] =
            CallNext([reqs[i] EXCEPT !.stat = StatSaw("error")],
                     StatErrorArg("EIO"))]
    /\ UNCHANGED <<_cache, fs, nwrites, nclears, lastClear, gen, clearedGen,
                   calls, process>>

\* mutants of CacheInsert: the entry is not stored; a prior entry is kept
CacheInsertKeepPrior(store, url, entry) == store @@ (url :> entry)

CacheInsertNothing(store, url, entry) == store

\* static.js:118-124  the entry a completed 200 response leaves in the store
CacheInsert(store, url, entry) == (url :> entry) @@ store

\* static.js:127  fs.readFile(filename, onRead) at work: the file system
\* reads the file at some moment after the stat callback has asked for it.
\* What it finds then (the content, or no file) is what onRead is called
\* with later, whatever is written or removed in between
ReadFile(i) ==
    /\ reqs[i].pc = "read"
    /\ reqs' = [reqs EXCEPT ![i] =
            [reqs[i] EXCEPT !.pc = "onRead", !.read = Lookup(reqs[i].filename),
                            !.wRead = nwrites]]
    /\ UNCHANGED <<_cache, fs, nwrites, nclears, lastClear, gen, clearedGen,
                   calls, process>>

\* static.js:98-116  onRead with the file read: the response it writes
OnRead(r, file) ==
    LET h == Handlers[r.h]
        head == r.method = "HEAD"
        headers == BuildHeaders(r.filename, r.stat, h.maxAge)
        q == [r EXCEPT !.src = "fs", !.data = file.data,
                       !.origin = r.filename, !.rstat = StatOf(file)]
    IN  IF ~modified(r, headers)
        THEN Respond(q, 304, StripContent(headers), NoBody)
        ELSE Respond(q, 200, headers, EndBody(head, file.data))

\* static.js:98-125  the readFile callback without an error: onRead is
\* called with the content readFile found
ReadCallback(i) ==
    /\ reqs[i].pc = "onRead"
    /\ reqs[i].read.kind = "file"
    /\ LET r == reqs[i]
           q == OnRead(r, r.read)
       IN  IF q.status = 200 /\ Handlers[r.h].cache
           THEN /\ reqs' = [reqs EXCEPT ![i] =
                        [q EXCEPT !.ninsert = 1, !.gEnd = gen[r.url] + 1]]
                /\ _cache' = CacheInsert(_cache, r.url,
                        [headers |-> q.headers, body |-> q.data,
                         filename |-> q.filename, stat |-> q.stat,
                         rstat |-> q.rstat, wStat |-> q.wStat,
                         wRead |-> q.wRead])
                /\ gen' = [gen EXCEPT ![r.url] = @ + 1]
           ELSE /\ reqs' = [reqs EXCEPT ![i] = q]
                /\ UNCHANGED <<_cache, gen>>
    /\ UNCHANGED <<fs, nwrites, nclears, lastClear, clearedGen, calls,
                   process>>

\* static.js:99  onRead with an error: the file was gone or was a
\* directory when readFile came to it, or the read itself failed
ReadFail(i) ==
    /\ reqs[i].pc = "onRead"
    /\ LET kind == reqs[i].read.kind
       IN  \E e \in {"EIO"} \cup (IF kind = "none" THEN {"ENOENT"}
                                  ELSE IF kind = "dir" THEN {"EISDIR"} ELSE {}) :
               reqs' = [reqs EXCEPT ![i] = CallNext(reqs[i], e)]
    /\ UNCHANGED <<_cache, fs, nwrites, nclears, lastClear, gen, clearedGen,
                   calls, process>>

\* static.js:232-238  exports.clearCache(key)
ClearCache(key) ==
    /\ nclears < MaxClears
    /\ nclears' = nclears + 1
    /\ _cache' = clearCache(key, _cache)
    /\ lastClear' = [key |-> key, before |-> _cache, after |-> _cache']
    /\ gen' = [k \in DOMAIN gen |->
                IF k \in DOMAIN _cache \ DOMAIN _cache'
                THEN gen[k] + 1 ELSE gen[k]]
    /\ clearedGen' = [k \in DOMAIN clearedGen |->
                IF key = UndefinedKey /\ k \in DOMAIN _cache
                THEN gen'[k] ELSE clearedGen[k]]
    /\ UNCHANGED <<fs, reqs, nwrites, calls, process>>

\* the environment writes a file
WriteFile(path, data, mtime) ==
    /\ nwrites < MaxWrites
    /\ nwrites' = nwrites + 1
    /\ fs' = [fs EXCEPT ![path] = File(data, mtime)]
    /\ UNCHANGED <<_cache, reqs, nclears, lastClear, gen, clearedGen, calls,
                   process>>

\* the environment removes a file
Unlink(path) ==
    /\ nwrites < MaxWrites
    /\ fs[path].kind = "file"
    /\ nwrites' = nwrites + 1
    /\ fs' = [fs EXCEPT ![path] = Missing]
    /\ UNCHANGED <<_cache, reqs, nclears, lastClear, gen, clearedGen, calls,
                   process>>

Init ==
    /\ _cache = [k \in {} |-> Undefined]
    /\ fs = InitFs
    /\ reqs = <<>>
    /\ nwrites = 0
    /\ nclears = 0
    /\ lastClear = [key |-> UndefinedKey, before |-> _cache, after |-> _cache]
    /\ gen = [k \in URLs |-> 0]
    /\ clearedGen = [k \in URLs |-> -1]
    /\ calls = <<>>
    /\ process \in Processes

\* the file system at work on a pending readFile, and the callbacks it calls
Callbacks ==
    \E i \in 1..Len(reqs) :
        \/ StatCallback(i) \/ StatFail(i)
        \/ ReadFile(i) \/ ReadCallback(i) \/ ReadFail(i)

Environment(Keys) ==
    \/ \E key \in Keys : ClearCache(key)
    \/ \E path \in Mutable, data \in Contents, mtime \in MTimes :
           WriteFile(path, data, mtime)
    \/ \E path \in Mutable : Unlink(path)

\* an If-None-Match a client can hold: an ETag some response carried
SeenETags ==
    {reqs[i].headers[ETag] :
        i \in {j \in 1..Len(reqs) : ETag \in DOMAIN reqs[j].headers}}

(***************************************************************************)
(* Specifications: the same handler, callbacks and environment under       *)
(* different request populations.                                          *)
(***************************************************************************)

\* Spec: one URL, on a caching handler and on one without cache;
\* unconditional requests and conditional ones that bypass the cache
CoreInputs ==
    {Input("A", "GET", U_a, NoDate, Undefined),
     Input("A", "HEAD", U_a, NoDate, Undefined),
     Input("A", "GET", U_a, InvalidDate, Undefined),
     Input("A", "GET", U_a, DateString(2000), Undefined),
     Input("N", "GET", U_a, NoDate, Undefined)}

Next ==
    \/ Request(CoreInputs, MaxReqs, MaxInFlight)
    \/ Callbacks
    \/ Environment({UndefinedKey, U_a})

Spec == Init /\ [][Next]_vars

\* SpecCond: one URL on a caching handler, with the validators a client
\* can send
CondInputs ==
    {Input("A", "GET", U_a, NoDate, Undefined),
     Input("A", "HEAD", U_a, NoDate, Undefined),
     Input("A", "GET", U_a, DateString(1000), Undefined),
     Input("A", "GET", U_a, DateString(2000), Undefined)}
    \cup {Input("A", m, U_a, NoDate, t) : m \in {"GET", "HEAD"}, t \in SeenETags}

NextCond ==
    \/ Request(CondInputs, MaxReqs, MaxInFlight)
    \/ Callbacks
    \/ Environment({UndefinedKey})

SpecCond == Init /\ [][NextCond]_vars

\* SpecPath: unconditional requests for many URLs on a caching handler
PathInputs ==
    {Input("A", "GET", u, NoDate, Undefined) : u \in URLs}
    \cup {Input("A", "HEAD", u, NoDate, Undefined) : u \in {U_dd, U_ddenc}}

NextPath ==
    \/ Request(PathInputs, MaxPathReqs, MaxInFlight)
    \/ Callbacks
    \/ Environment({UndefinedKey, <<>>, U_a, U_aq, U_none})

SpecPath == Init /\ [][NextPath]_vars

\* SpecMethod: requests with methods the handler declines, whatever their
\* URL and validators, next to a GET that fills the store
MethodInputs ==
    {Input("A", "GET", U_a, NoDate, Undefined),
     Input("A", "POST", U_a, NoDate, Undefined),
     Input("A", "POST", U_dd, NoDate, Undefined),
     Input("A", "DELETE", U_bad, NoDate, Undefined),
     Input("A", "PUT", U_a, DateString(2000), "1-1500")}

NextMethod ==
    \/ Request(MethodInputs, MaxReqs, MaxInFlight)
    \/ Callbacks
    \/ Environment({UndefinedKey})

SpecMethod == Init /\ [][NextMethod]_vars

\* SpecErr: requests that reach the file system for a file, a directory and
\* a missing file, with and without an entry in the store
ErrInputs ==
    {Input("A", "GET", U_a, NoDate, Undefined),
     Input("A", "GET", U_a, InvalidDate, Undefined),
     Input("A", "HEAD", U_dir, NoDate, Undefined),
     Input("A", "GET", U_none, NoDate, Undefined),
     Input("N", "GET", U_a, NoDate, Undefined)}

NextErr ==
    \/ Request(ErrInputs, MaxReqs, MaxInFlight)
    \/ Callbacks
    \/ Environment({UndefinedKey})

SpecErr == Init /\ [][NextErr]_vars

\* SpecFrame: every way a request can end, on two cacheable URLs
FrameInputs ==
    {Input("A", "GET", U_a, NoDate, Undefined),
     Input("A", "GET", U_aq, NoDate, Undefined),
     Input("A", "GET", U_a, InvalidDate, Undefined),
     Input("A", "GET", U_a, DateString(2000), Undefined),
     Input("A", "GET", U_dd, NoDate, Undefined),
     Input("N", "GET", U_a, NoDate, Undefined)}

NextFrame ==
    \/ Request(FrameInputs, MaxReqs, MaxInFlight)
    \/ Callbacks
    \/ Environment({UndefinedKey, U_a})

SpecFrame == Init /\ [][NextFrame]_vars

\* SpecBypass: conditional requests and requests on a handler without cache,
\* next to a caching handler that fills the store under the same URL
BypassInputs ==
    {Input("A", "GET", U_a, NoDate, Undefined),
     Input("A", "GET", U_a, DateString(2000), Undefined),
     Input("A", "HEAD", U_a, NoDate, "1-1500"),
     Input("A", "GET", U_a, NoDate, "9-9"),
     Input("N", "GET", U_a, NoDate, Undefined)}

NextBypass ==
    \/ Request(BypassInputs, MaxReqs, MaxInFlight)
    \/ Callbacks
    \/ Environment({UndefinedKey})

SpecBypass == Init /\ [][NextBypass]_vars

\* SpecRoots: two caching handlers with different roots, asked for the same
\* URL
RootsInputs ==
    {Input("A", "GET", U_a, NoDate, Undefined),
     Input("B", "GET", U_a, NoDate, Undefined),
     Input("B", "HEAD", U_a, NoDate, Undefined)}

NextRoots ==
    \/ Request(RootsInputs, MaxReqs, MaxInFlight)
    \/ Callbacks
    \/ Environment({UndefinedKey})

SpecRoots == Init /\ [][NextRoots]_vars

\* SpecRace: unconditional requests for one URL, two of them in flight at
\* a time
RaceInputs ==
    {Input("A", "GET", U_a, NoDate, Undefined),
     Input("A", "HEAD", U_a, NoDate, Undefined)}

NextRace ==
    \/ Request(RaceInputs, MaxReqs, MaxRaceInFlight)
    \/ Callbacks
    \/ Environment({UndefinedKey})

SpecRace == Init /\ [][NextRace]_vars

\* SpecModified: modified(req, headers) called on its own, with the
\* validators a request can carry and the headers the handler can build
ModifiedSinces ==
    {NoDate, InvalidDate, DateString(999), DateString(1000), DateString(1999),
     DateString(2000)}

NoneMatches == {Undefined, "", "*", "1-1500", "2-2000"}

BuiltHeaders ==
    {BuildHeaders(FileRA, StatOf(File(data, mtime)), Handlers.A.maxAge) :
        data \in Contents \cup {<<"x">>}, mtime \in MTimes \cup {1000}}

CallModified(req, headers) ==
    /\ Len(calls) < MaxCalls
    /\ calls' = Append(calls, [req |-> req, headers |-> headers,
                               result |-> modified(req, headers)])
    /\ UNCHANGED <<_cache, fs, reqs, nwrites, nclears, lastClear, gen,
                   clearedGen, process>>

NextModified ==
    \E ims \in ModifiedSinces, inm \in NoneMatches, headers \in BuiltHeaders :
        CallModified(Input("A", "GET", U_a, ims, inm), headers)

SpecModified == Init /\ [][NextModified]_vars

(***************************************************************************)
(* Vocabulary of the properties.                                           *)
(***************************************************************************)
Done == {i \in 1..Len(reqs) : reqs[i].pc = "done"}

HasDotDot(s) == \E k \in 1..(Len(s) - 1) : s[k] = "." /\ s[k + 1] = "."

Unconditional(r) == r.ims = NoDate /\ r.inm = Undefined

Caching(r) == Handlers[r.h].cache

SameRequest(a, b) ==
    /\ a.h = b.h /\ a.method = b.method /\ a.url = b.url
    /\ a.ims = b.ims /\ a.inm = b.inm

SameAnswer(a, b) ==
    a.status = b.status /\ a.headers = b.headers /\ a.body = b.body

\* the response was written once: one writeHead, one end
Answered(r) == r.pc = "done" /\ r.heads = 1 /\ r.ends = 1

NoContentHeaders(headers) ==
    \A f \in DOMAIN headers :
        ~(Len(f) >= Len(Content) /\ SubSeq(f, 1, Len(Content)) = Content)

(***************************************************************************)
(* C1  A GET or HEAD whose percent-decoded path contains '..' is answered  *)
(* 403 'Forbidden' at once: no stat, no read, no cache lookup or insert,   *)
(* no call of next.                                                        *)
(***************************************************************************)
C1_TraversalForbidden ==
    \A i \in 1..Len(reqs) :
        LET r == reqs[i]
            d == decodeURIComponent(pathname(r.url))
        IN  (r.method \in {"GET", "HEAD"} /\ d # URIError /\ HasDotDot(d)) =>
                /\ Answered(r)
                /\ r.status = 403
                /\ r.body = Body(ForbiddenBody)
                /\ r.nstat = 0 /\ r.nread = 0
                /\ r.nlookup = 0 /\ r.ninsert = 0
                /\ r.nexts = 0

\* an escaped traversal was refused while the store held an entry
C1_Witness ==
    \E i \in Done :
        /\ reqs[i].url = U_ddenc
        /\ reqs[i].status = 403
        /\ DOMAIN _cache # {}

(***************************************************************************)
(* C2  With caching enabled, an unconditional GET or HEAD that arrives     *)
(* while the store holds an entry under its URL is answered 200 with that  *)
(* entry's headers, the entry's body for GET and none for HEAD, without    *)
(* stat or read and without a change of the store.                         *)
(***************************************************************************)
C2_CacheHit ==
    [][(Len(reqs') = Len(reqs) + 1) =>
        LET r == reqs'[Len(reqs')]
        IN  (/\ Caching(r)
             /\ r.method \in {"GET", "HEAD"}
             /\ Unconditional(r)
             /\ r.url \in DOMAIN _cache) =>
                /\ Answered(r)
                /\ r.status = 200
                /\ r.headers = _cache[r.url].headers
                /\ r.body = (IF r.method = "GET"
                             THEN Body(_cache[r.url].body) ELSE NoBody)
                /\ r.nstat = 0 /\ r.nread = 0 /\ r.nexts = 0
                /\ _cache' = _cache]_vars

\* a GET was served from the store after the file had changed
C2_Witness ==
    \E i \in Done :
        /\ reqs[i].method = "GET"
        /\ reqs[i].src = "cache"
        /\ reqs[i].body.sent
        /\ reqs[i].wRead < reqs[i].w0

(***************************************************************************)
(* C3 as stated: with caching enabled, the same GET issued twice, whatever *)
(* its URL and headers, with no file modification in between, is answered  *)
(* identically, the second time without stat or read.                      *)
(***************************************************************************)
C3_AnyGetTwice ==
    \A i \in Done, j \in Done :
        LET a == reqs[i]
            b == reqs[j]
        IN  (/\ i \in b.before
             /\ SameRequest(a, b)
             /\ a.method = "GET"
             /\ Caching(a)
             /\ Answered(a) /\ Answered(b)
             /\ a.w0 = b.wEnd) =>
                /\ SameAnswer(a, b)
                /\ b.nstat = 0 /\ b.nread = 0

(***************************************************************************)
(* C3 amended: with caching enabled, an unconditional GET answered 200 and *)
(* issued again, with no file modification and no change of the store's    *)
(* entry for its URL in between, is answered identically, the second time  *)
(* without stat or read.                                                   *)
(***************************************************************************)
C3_UnconditionalGetTwice ==
    \A i \in Done, j \in Done :
        LET a == reqs[i]
            b == reqs[j]
        IN  (/\ i \in b.before
             /\ SameRequest(a, b)
             /\ a.method = "GET"
             /\ Caching(a)
             /\ Unconditional(a)
             /\ a.status = 200
             /\ a.w0 = b.wEnd
             /\ a.gEnd = b.g0) =>
                /\ SameAnswer(a, b)
                /\ b.nstat = 0 /\ b.nread = 0

\* a GET built from the file system, then the same GET served from the store
C3_Witness ==
    \E i \in Done, j \in Done :
        /\ i \in reqs[j].before
        /\ SameRequest(reqs[i], reqs[j])
        /\ reqs[i].method = "GET" /\ Unconditional(reqs[i])
        /\ reqs[i].src = "fs" /\ reqs[i].status = 200
        /\ reqs[j].src = "cache"
        /\ reqs[i].w0 = reqs[j].wEnd
        /\ reqs[i].gEnd = reqs[j].g0

(***************************************************************************)
(* C4  Once a conditional GET for a URL has been handled (answered) after  *)
(* the file behind it was modified, an unconditional request for that URL  *)
(* is no longer served the headers and body cached before the              *)
(* modification.                                                           *)
(***************************************************************************)
C4_InvalidatedByConditionalGet ==
    \A k \in Done, c \in Done :
        LET r == reqs[k]
            g == reqs[c]
        IN  (/\ c \in r.before
             /\ g.url = r.url
             /\ g.method = "GET" /\ conditionalGET(g) /\ Answered(g)
             /\ Unconditional(r)
             /\ r.src = "cache") =>
                ~(r.wStat < g.w0 /\ r.wRead < g.w0)

(***************************************************************************)
(* C5 as stated: the first unconditional request for a URL that was cached *)
(* when clearCache() was called issues a stat instead of being served from *)
(* the store, whatever was pending when clearCache() was called.           *)
(***************************************************************************)
C5_NextAfterClearReads ==
    /\ lastClear.key = UndefinedKey => DOMAIN lastClear.after = {}
    /\ \A i \in 1..Len(reqs) :
        reqs[i].afterClear >= 0 =>
            /\ reqs[i].src # "cache"
            /\ reqs[i].nstat = 1
            /\ reqs[i].stat.kind = "file" => reqs[i].nread = 1

(***************************************************************************)
(* C6 as stated: clearCache(key), for every key string, removes the entry  *)
(* under that key and leaves the other entries unchanged.                  *)
(***************************************************************************)
C6_ClearKeyAnyString ==
    (nclears > 0 /\ lastClear.key # UndefinedKey) =>
        lastClear.after =
            [k \in DOMAIN lastClear.before \ {lastClear.key} |-> lastClear.before[k]]

(***************************************************************************)
(* C6 amended: clearCache(key), for every non-empty key string, removes    *)
(* the entry under that key and leaves the other entries unchanged; it is  *)
(* a no-op when the key holds no entry.                                    *)
(***************************************************************************)
C6_ClearKeyNonEmpty ==
    (nclears > 0 /\ lastClear.key # UndefinedKey /\ lastClear.key # <<>>) =>
        lastClear.after =
            [k \in DOMAIN lastClear.before \ {lastClear.key} |-> lastClear.before[k]]

\* one of two entries was removed by its key
C6_Witness ==
    /\ nclears > 0
    /\ lastClear.key = U_a
    /\ DOMAIN lastClear.before = {U_a, U_aq}
    /\ DOMAIN lastClear.after = {U_aq}

(***************************************************************************)
(* C7  Every 200 response built from the file system carries the byte      *)
(* length of the content read as Content-Length and the ETag of that same  *)
(* file version, also when the file changes between stat and read.         *)
(***************************************************************************)
C7_HeadersDescribeContentRead ==
    \A i \in Done :
        (reqs[i].src = "fs" /\ reqs[i].status = 200) =>
            /\ reqs[i].headers[ContentLength] = Len(reqs[i].data)
            /\ reqs[i].headers[ETag] = etag(reqs[i].rstat)

(***************************************************************************)
(* C8 as stated: a GET or HEAD that carries the ETag of any prior 200      *)
(* response for the URL as If-None-Match, with the file not modified from  *)
(* the arrival of the first request to the end of the second, is answered  *)
(* 304 without Content-* headers and without body.                         *)
(***************************************************************************)
C8_EtagOfAnyPrior200 ==
    \A i \in Done, j \in Done :
        LET a == reqs[i]
            b == reqs[j]
        IN  (/\ i \in b.before
             /\ a.status = 200
             /\ a.h = b.h /\ a.url = b.url
             /\ b.method \in {"GET", "HEAD"}
             /\ b.inm = a.headers[ETag]
             /\ a.w0 = b.wEnd
             /\ Answered(b)) =>
                /\ b.status = 304
                /\ NoContentHeaders(b.headers)
                /\ b.body = NoBody

(***************************************************************************)
(* C8 amended: a GET or HEAD that carries as If-None-Match the ETag of a   *)
(* prior 200 response for the URL, with the file not modified since the    *)
(* stat that ETag was computed from (for a response served from the store, *)
(* the stat of the request that inserted the entry), and whose own stat    *)
(* succeeds, is never answered 200: it is answered 304 without Content-*   *)
(* headers and without body, or, when the read that precedes the           *)
(* validation fails, it ends in next(err) without a response.              *)
(***************************************************************************)
C8_EtagOfCurrentVersion ==
    \A i \in Done, j \in Done :
        LET a == reqs[i]
            b == reqs[j]
        IN  (/\ i \in b.before
             /\ a.status = 200
             /\ a.h = b.h /\ a.url = b.url
             /\ b.method \in {"GET", "HEAD"}
             /\ b.inm = a.headers[ETag]
             /\ a.wStat = b.wEnd
             /\ b.stat.kind = "file") =>
                /\ b.nread = 1
                /\ \/ /\ Answered(b) /\ b.nexts = 0
                      /\ b.status = 304
                      /\ NoContentHeaders(b.headers)
                      /\ b.body = NoBody
                   \/ /\ b.heads = 0 /\ b.ends = 0 /\ b.status = 0
                      /\ b.nexts = 1 /\ b.err # Undefined

\* the ETag of a 200 served from the store came back and was answered 304
C8_Witness ==
    \E i \in Done, j \in Done :
        /\ i \in reqs[j].before
        /\ reqs[i].status = 200 /\ reqs[i].src = "cache"
        /\ reqs[j].inm = reqs[i].headers[ETag]
        /\ reqs[i].wStat = reqs[j].wEnd
        /\ reqs[j].status = 304
        /\ reqs[j].nread = 1

(***************************************************************************)
(* C9 as stated: a GET with a parseable If-Modified-Since and no           *)
(* If-None-Match on an existing file is answered 304 when the timestamp is *)
(* at or after the modification time stat reports, in milliseconds, and    *)
(* 200 when it is before.                                                  *)
(***************************************************************************)
C9_ModifiedSinceMillis ==
    \A i \in Done :
        LET r == reqs[i]
        IN  (/\ r.method = "GET"
             /\ r.ims.kind = "date" /\ r.inm = Undefined
             /\ Answered(r) /\ r.status \in {200, 304}) =>
                /\ r.ims.ms >= r.stat.mtime => r.status = 304
                /\ r.ims.ms < r.stat.mtime => r.status = 200

(***************************************************************************)
(* C9 amended: such a GET is answered 304 when the timestamp is at or      *)
(* after the Last-Modified value, which is the modification time stat      *)
(* reports cut to whole seconds, and 200 when it is before.                *)
(***************************************************************************)
C9_ModifiedSinceSeconds ==
    \A i \in Done :
        LET r == reqs[i]
            lm == (r.stat.mtime \div MsPerSec) * MsPerSec
        IN  (/\ r.method = "GET"
             /\ r.ims.kind = "date" /\ r.inm = Undefined
             /\ Answered(r) /\ r.status \in {200, 304}) =>
                /\ r.ims.ms >= lm => r.status = 304
                /\ r.ims.ms < lm => r.status = 200

\* a timestamp inside the second of the modification time was answered 304,
\* and one before that second 200
C9_Witness ==
    /\ \E i \in Done :
        /\ reqs[i].ims = DateString(1000) /\ reqs[i].stat.kind = "file"
        /\ reqs[i].stat.mtime = 1500
        /\ reqs[i].status = 304
    /\ \E i \in Done :
        /\ reqs[i].ims = DateString(1000) /\ reqs[i].stat.kind = "file"
        /\ reqs[i].stat.mtime = 2000
        /\ reqs[i].status = 200

(***************************************************************************)
(* C10  A HEAD request gets no body, on 200 (from the file system or from  *)
(* the store) and on 304; its 200 carries as Content-Length the size stat  *)
(* reported for the file, the value a GET in the same state carries.       *)
(***************************************************************************)
C10_HeadNoBody ==
    /\ \A i \in Done :
        LET r == reqs[i]
        IN  (r.method = "HEAD" /\ r.status \in {200, 304}) =>
                /\ Answered(r)
                /\ r.body = NoBody
                /\ r.status = 200 => r.headers[ContentLength] = r.stat.size
    /\ \A i \in 1..Len(reqs) :
        LET r == reqs[i]
        IN  (r.pc = "onRead" /\ r.method = "HEAD" /\ r.read.kind = "file") =>
                LET asHead == OnRead(r, r.read)
                    asGet == OnRead([r EXCEPT !.method = "GET"], r.read)
                IN  /\ asHead.status = asGet.status
                    /\ asHead.headers = asGet.headers
    /\ LET asHead == Handle(Input("A", "HEAD", U_a, NoDate, Undefined))
           asGet == Handle(Input("A", "GET", U_a, NoDate, Undefined))
       IN  /\ asHead.status = asGet.status
           /\ asHead.headers = asGet.headers

\* HEAD was answered 200 from the store, 200 from the file system and 304
C10_Witness ==
    /\ \E i \in Done :
        reqs[i].method = "HEAD" /\ reqs[i].status = 200 /\ reqs[i].src = "cache"
    /\ \E i \in Done :
        reqs[i].method = "HEAD" /\ reqs[i].status = 200 /\ reqs[i].src = "fs"
    /\ \E i \in Done :
        reqs[i].method = "HEAD" /\ reqs[i].status = 304

(***************************************************************************)
(* C11  A request whose method is neither GET nor HEAD, whatever its path, *)
(* its validators and the content of the store, gets no response, no stat  *)
(* and no read, no cache lookup and no insert, and exactly one next() with *)
(* no error; the store is as it was.                                       *)
(***************************************************************************)
C11_OtherMethodsPassThrough ==
    [][(Len(reqs') = Len(reqs) + 1) =>
        LET r == reqs'[Len(reqs')]
        IN  (r.method \notin {"GET", "HEAD"}) =>
                /\ r.pc = "done"
                /\ r.heads = 0 /\ r.ends = 0 /\ r.status = 0
                /\ r.nstat = 0 /\ r.nread = 0
                /\ r.nlookup = 0 /\ r.ninsert = 0
                /\ r.nexts = 1 /\ r.err = Undefined /\ ~r.thrown
                /\ _cache' = _cache]_vars

\* a POST for a traversal path and a PUT with validators for a cached URL
\* were passed on
C11_Witness ==
    /\ \E i \in Done :
        /\ reqs[i].method = "POST" /\ reqs[i].url = U_dd
        /\ reqs[i].nexts = 1
    /\ \E i \in Done :
        /\ reqs[i].method = "PUT" /\ reqs[i].inm = "1-1500"
        /\ reqs[i].g0 > 0 /\ reqs[i].g0 = gen[U_a]
        /\ U_a \in DOMAIN _cache
        /\ reqs[i].nexts = 1

\* the request got no response and was handed to next once
PassedOn(r) ==
    /\ r.pc = "done"
    /\ r.heads = 0 /\ r.ends = 0 /\ r.status = 0
    /\ r.nexts = 1 /\ ~r.thrown

(***************************************************************************)
(* C12  For a request that reaches the file system: a stat that reports    *)
(* the file missing, and a path that is a directory, end in next() without *)
(* error; any other stat failure and any read failure end in next(err);    *)
(* none of them writes a response or changes the store.                    *)
(***************************************************************************)
C12_FileSystemFailures ==
    [][\A i \in 1..Len(reqs) :
        LET r == reqs[i]
            q == reqs'[i]
            file == Lookup(r.filename)
        IN  /\ (r.pc = "stat" /\ q.pc = "done" /\ q.stat.kind = "none") =>
                /\ file.kind = "none"
                /\ PassedOn(q) /\ q.err = Undefined /\ q.nread = 0
                /\ _cache' = _cache
            /\ (r.pc = "stat" /\ q.pc = "done" /\ file.kind = "dir"
                    /\ q.stat.kind # "error") =>
                /\ q.stat.kind = "dir"
                /\ PassedOn(q) /\ q.err = Undefined /\ q.nread = 0
                /\ _cache' = _cache
            /\ (r.pc = "stat" /\ q.pc = "done" /\ q.stat.kind = "error") =>
                /\ PassedOn(q) /\ q.err # Undefined /\ q.nread = 0
                /\ _cache' = _cache
            /\ (r.pc = "onRead" /\ q.pc = "done" /\ q.src = "none") =>
                /\ PassedOn(q) /\ q.err # Undefined
                /\ q.ninsert = 0
                /\ _cache' = _cache]_vars

(***************************************************************************)
(* C13  Every entry of the store is a snapshot of one file version: its    *)
(* ETag is etag(size, mtime) of the file as it was when the entry's body   *)
(* was read, and its Content-Length is the byte length of its body.        *)
(***************************************************************************)
C13_EntryIsSnapshot ==
    \A k \in DOMAIN _cache :
        LET e == _cache[k]
        IN  /\ e.headers[ETag] = etag(e.rstat)
            /\ e.headers[ContentLength] = Len(e.body)

\* neither request had ended when the other arrived
Concurrent(i, j) ==
    i # j /\ i \notin reqs[j].before /\ j \notin reqs[i].before

(***************************************************************************)
(* C14  When two requests for one URL miss the store concurrently and both *)
(* end in 200, both insert, the entry of the one that ends later remains,  *)
(* and that entry describes no older file version than the entry it        *)
(* overwrote: neither its headers nor its body come from an older version. *)
(***************************************************************************)
C14_LaterInsertNotOlder ==
    \A i \in Done, j \in Done :
        LET a == reqs[i]
            b == reqs[j]
        IN  (/\ Concurrent(i, j)
             /\ a.url = b.url
             /\ Caching(a) /\ Caching(b)
             /\ a.nlookup = 1 /\ b.nlookup = 1
             /\ a.src = "fs" /\ b.src = "fs"
             /\ a.status = 200 /\ b.status = 200
             /\ b.gEnd = a.gEnd + 1) =>
                /\ a.ninsert = 1 /\ b.ninsert = 1
                /\ gen[b.url] = b.gEnd =>
                    /\ b.url \in DOMAIN _cache
                    /\ _cache[b.url].headers = b.headers
                    /\ _cache[b.url].body = b.data
                /\ b.wStat >= a.wStat \/ b.stat = a.stat
                /\ b.wRead >= a.wRead \/ b.rstat = a.rstat

\* the request ended in a 200 built from the file system on a handler with
\* caching enabled
Fills(q) == Caching(q) /\ q.status = 200 /\ q.src = "fs"

(***************************************************************************)
(* C15  The store changes only when a request on a caching handler ends in *)
(* a 200 built from the file system, which puts the headers and body just  *)
(* built under the request's exact URL in place of any prior entry, and by *)
(* clearCache, which only removes entries.  A request that ends otherwise  *)
(* (cache hit, 304, 403, pass-through, error, handler without cache)       *)
(* leaves the store as it is, and no entry's content ever changes except   *)
(* by such a replacement.                                                  *)
(***************************************************************************)
C15_StoreFrame ==
    [][/\ (_cache' # _cache) =>
            \/ /\ nclears' = nclears + 1
               /\ \A k \in DOMAIN _cache' :
                    k \in DOMAIN _cache /\ _cache'[k] = _cache[k]
            \/ \E i \in 1..Len(reqs) :
                /\ reqs[i].pc = "onRead" /\ reqs'[i].pc = "done"
                /\ Fills(reqs'[i])
                /\ DOMAIN _cache' = DOMAIN _cache \cup {reqs'[i].url}
                /\ \A k \in DOMAIN _cache \ {reqs'[i].url} :
                    _cache'[k] = _cache[k]
       /\ \A i \in 1..Len(reqs') :
            LET q == reqs'[i]
                ends == q.pc = "done" /\ (i > Len(reqs) \/ reqs[i].pc # "done")
            IN  ends =>
                    IF Fills(q)
                    THEN /\ q.url \in DOMAIN _cache'
                         /\ _cache'[q.url].headers = q.headers
                         /\ _cache'[q.url].body = q.data
                    ELSE _cache' = _cache]_vars

\* an entry was replaced by the 200 of a conditional request, and a request
\* answered 304 left it in place
C15_Witness ==
    /\ nclears = 0
    /\ \E i \in Done :
        /\ conditionalGET(reqs[i]) /\ reqs[i].status = 200
        /\ reqs[i].g0 = 1 /\ reqs[i].gEnd = 2
        /\ reqs[i].wStat > 0
    /\ \E i \in Done :
        /\ reqs[i].status = 304
        /\ reqs[i].g0 = 2 /\ gen[reqs[i].url] = 2

(***************************************************************************)
(* C16  For a request that reaches the file system the validators are      *)
(* checked after the stat and before the read: a request answered 304 has  *)
(* issued a stat and no read, and a request whose validators match the     *)
(* headers built from its stat is answered 304 whatever a read would do.   *)
(***************************************************************************)
C16_ValidatedBeforeRead ==
    \A i \in Done :
        LET r == reqs[i]
            headers == BuildHeaders(r.filename, r.stat, Handlers[r.h].maxAge)
        IN  /\ (r.nstat = 1 /\ r.status = 304) => r.nread = 0
            /\ (r.nstat = 1 /\ r.stat.kind = "file" /\ ~modified(r, headers)) =>
                    Answered(r) /\ r.status = 304

(***************************************************************************)
(* C17  modified(req, headers) is false exactly when If-None-Match is      *)
(* present and equals the ETag, or If-Modified-Since is present, is a      *)
(* valid date and Last-Modified is not after it; it is true in every other *)
(* case, and a matching If-None-Match decides whatever If-Modified-Since   *)
(* holds.                                                                  *)
(***************************************************************************)
C17_ModifiedTable ==
    \A k \in 1..Len(calls) :
        LET c == calls[k]
            tagMatches ==
                c.req.inm # Undefined /\ c.req.inm = c.headers[ETag]
            sinceHolds ==
                /\ c.req.ims.kind = "date"
                /\ c.headers[LastModified].ms <= c.req.ims.ms
        IN  /\ c.result = ~(tagMatches \/ sinceHolds)
            /\ tagMatches => ~c.result

\* a matching If-None-Match came with an If-Modified-Since before the
\* Last-Modified value
C17_Witness ==
    \E k \in 1..Len(calls) :
        /\ calls[k].req.inm = calls[k].headers[ETag]
        /\ calls[k].req.ims.kind = "date"
        /\ calls[k].req.ims.ms < calls[k].headers[LastModified].ms
        /\ ~calls[k].result

\* the request carries a validator (a header with a value)
Carries(r) == r.ims # NoDate \/ (r.inm # Undefined /\ r.inm # "")

(***************************************************************************)
(* C18  A GET or HEAD that carries If-Modified-Since or If-None-Match is   *)
(* never answered from the store: whatever the store holds, it issues a    *)
(* stat and its answer is decided by the headers built from that stat.  A  *)
(* request on a handler without cache never looks into the store and never *)
(* inserts, also when another handler has stored an entry under its URL.   *)
(***************************************************************************)
C18_BypassStore ==
    \A i \in 1..Len(reqs) :
        LET r == reqs[i]
            headers == BuildHeaders(r.filename, r.stat, Handlers[r.h].maxAge)
            served == r.method \in {"GET", "HEAD"} /\ ~r.thrown /\ r.status # 403
        IN  /\ (served /\ Carries(r)) =>
                /\ r.nlookup = 0 /\ r.src # "cache"
                /\ r.nstat = 1
                /\ (r.pc = "done" /\ r.src = "fs") =>
                    /\ r.wStat >= r.w0 /\ r.wRead >= r.wStat
                    /\ r.status = (IF modified(r, headers) THEN 200 ELSE 304)
                    /\ r.status = 200 => r.headers = headers
            /\ (served /\ ~Caching(r)) =>
                /\ r.nlookup = 0 /\ r.src # "cache"
                /\ r.nstat = 1
                /\ r.ninsert = 0

\* with an entry under their URL in the store, a request carrying the ETag
\* of that entry was answered 200 for the file as modified since, and a
\* request on the handler without cache went to the file system
C18_Witness ==
    /\ nclears = 0
    /\ \E i \in Done :
        /\ reqs[i].inm = "1-1500" /\ reqs[i].g0 = 1
        /\ reqs[i].status = 200 /\ reqs[i].headers[ETag] # "1-1500"
    /\ \E i \in Done :
        /\ reqs[i].h = "N" /\ reqs[i].g0 >= 1
        /\ reqs[i].src = "fs" /\ reqs[i].status = 200

\* one response was written: one writeHead, then one end
OneResponse(r) ==
    /\ r.heads = 1 /\ r.ends = 1 /\ r.status \in {200, 304, 403}
    /\ r.nexts = 0

\* next was invoked once and nothing was written
OneNext(r) == r.heads = 0 /\ r.ends = 0 /\ r.nexts = 1

(***************************************************************************)
(* C19  Every request concludes with exactly one outcome: one response     *)
(* (status 200, 304 or 403) or one invocation of next, never both, never   *)
(* twice.  A request has concluded when its handler has returned and no    *)
(* stat or read of it is pending; then nothing more will happen to it.     *)
(***************************************************************************)
C19_ExactlyOneOutcome ==
    \A i \in Done : OneResponse(reqs[i]) \/ OneNext(reqs[i])

(***************************************************************************)
(* C20  Every 200 response of a handler carries the headers and body of a  *)
(* file under that handler's root: of the file its URL names there, never  *)
(* of a file another handler read and stored.                              *)
(***************************************************************************)
C20_ContentFromOwnRoot ==
    \A i \in Done :
        LET r == reqs[i]
            root == Handlers[r.h].root
        IN  r.status = 200 =>
                /\ SubSeq(r.origin, 1, Len(root) + 1) = root \o <<"/">>
                /\ r.origin = Resolve(root, decodeURIComponent(pathname(r.url)))

====
